---- MODULE Spec2Model ----
(***************************************************************************)
(* loop_lib: run a command in a list of directories, sequentially or on a  *)
(* rayon thread pool, and reduce the per-directory results to one report   *)
(* and one pass/fail result (src/src/lib.rs).                               *)
(*                                                                         *)
(* Strings are sequences of one-character strings, so that the substring   *)
(* operations of the code (split_whitespace, replacen, contains,           *)
(* trim_end_matches) are computed and not assumed.                          *)
(***************************************************************************)
EXTENDS Integers, Sequences, FiniteSets, TLC

\* ------------------------------------------------------------------ bounds
\* Longest work list handed to run / run_commands.
MaxItems == 3
\* Threads of rayon's global pool (the machine's available parallelism).
NumThreads == 2
\* Longest command line drawn for the alias-resolution specification.
MaxCmdLen == 5
\* The clock of the parallel-dispatch specification runs from 0 to MaxTime.
MaxTime == 1
\* The filter specification draws up to MaxDirs directories of up to MaxDirLen
\* characters.
MaxDirs == 2
MaxDirLen == 2

\* ------------------------------------------------------------ Option, text
None == <<>>
Some(x) == <<x>>
IsSome(o) == o # <<>>
Unwrap(o) == o[1]

Min(S) == CHOOSE x \in S : \A y \in S : x <= y
Max(S) == CHOOSE x \in S : \A y \in S : x >= y

\* char::is_whitespace, on the characters the model draws.
is_whitespace(c) == c \in {" ", "\t", "\n", "\r"}

\* str::split_whitespace().next(): the first maximal run of non-whitespace.
split_whitespace_next(s) ==
    LET starts == {i \in 1..Len(s) : ~is_whitespace(s[i])}
    IN  IF starts = {} THEN None
        ELSE LET b == Min(starts)
                 e == Max({j \in b..Len(s) : \A k \in b..j : ~is_whitespace(s[k])})
             IN  Some(SubSeq(s, b, e))

\* str::find(pat): the 1-based index of the first occurrence, 0 when absent.
find(s, pat) ==
    LET hits == {i \in 1..(Len(s) - Len(pat) + 1) : SubSeq(s, i, i + Len(pat) - 1) = pat}
    IN  IF hits = {} THEN 0 ELSE Min(hits)

\* str::contains(pat)
contains(s, pat) == find(s, pat) # 0

\* A mutation of replacen: str::replace, every occurrence is replaced.
RECURSIVE replace_all(_, _, _)
replace_all(s, pat, to) ==
    LET i == find(s, pat)
    IN  IF i = 0 \/ pat = <<>> THEN s
        ELSE SubSeq(s, 1, i - 1) \o to
             \o replace_all(SubSeq(s, i + Len(pat), Len(s)), pat, to)

\* str::replacen(pat, to, 1): only the first occurrence is replaced.
replacen1(s, pat, to) ==
    LET i == find(s, pat)
    IN  IF i = 0 THEN s
        ELSE SubSeq(s, 1, i - 1) \o to \o SubSeq(s, i + Len(pat), Len(s))

\* str::trim().is_empty()
trim_is_empty(s) == \A i \in 1..Len(s) : is_whitespace(s[i])

\* HashMap::get
get(map, k) == IF k \in DOMAIN map THEN Some(map[k]) ELSE None

\* HashMap::extend: the keys of `more` overwrite those of `map`.
extend(map, more) ==
    [k \in (DOMAIN map) \cup (DOMAIN more) |-> IF k \in DOMAIN more THEN more[k] ELSE map[k]]

\* --------------------------------------------------------- alias resolution
\* The streaming executor's resolution of the command line.
resolved_command(command, aliases) ==
    LET first == split_whitespace_next(command)
    IN  IF IsSome(first) /\ IsSome(get(aliases, Unwrap(first)))
        THEN replacen1(command, Unwrap(first), Unwrap(get(aliases, Unwrap(first))))
        ELSE command

\* A mutation of the capturing executor: the command line is not resolved.
resolved_command_capturing_literal(command, aliases) == command

\* The capturing executor's resolution of the command line (the same code again).
resolved_command_capturing(command, aliases) ==
    LET first == split_whitespace_next(command)
    IN  IF IsSome(first) /\ IsSome(get(aliases, Unwrap(first)))
        THEN replacen1(command, Unwrap(first), Unwrap(get(aliases, Unwrap(first))))
        ELSE command

\* -------------------------------------------------------------- environment
\* What the run finds on disk and what the child processes do.  The directories
\* of the model: two that exist, one that does not, one path that is a regular
\* file (Path::exists is true there, and spawning with it as the working
\* directory fails).
DirA == <<"a">>
DirAB == <<"a", "/", "b">>
DirMissing == <<"m">>
DirFile == <<"f">>

FsKind(dir) ==
    CASE dir = DirMissing -> "missing"
      [] dir = DirFile -> "file"
      [] OTHER -> "dir"

\* Path::exists
exists(dir) == FsKind(dir) # "missing"

\* Command::spawn / Command::output: Err when the working directory is no directory.
spawn_ok(dir) == FsKind(dir) = "dir"

\* std::env::current_dir()
current_dir == <<"/", "w">>

CmdLl == <<"l", "l">>
CmdLs == <<"l", "s">>
CmdNo == <<"n", "o">>
CmdKill == <<"k">>
CmdHang == <<"h">>
CmdBlank == <<"b">>

\* The child process `$SHELL -c line`: its exit status (None: ended by a signal)
\* and what it writes.
ShellRun(line) ==
    CASE line = CmdLs -> [code |-> Some(0), stdout |-> <<"o", "\n">>, stderr |-> <<>>]
      [] line = CmdNo -> [code |-> Some(2), stdout |-> <<>>, stderr |-> <<"e", "\n">>]
      [] line = CmdKill -> [code |-> None, stdout |-> <<>>, stderr |-> <<>>]
      [] line = CmdBlank -> [code |-> Some(0), stdout |-> <<" ", "\n">>, stderr |-> <<>>]
      [] OTHER -> [code |-> Some(127), stdout |-> <<>>, stderr |-> <<"?", "\n">>]

\* ExitStatus::success
status_success(status) == status.code = Some(0)

\* A mutation of the exit code: a child ended by a signal counts as exit 0.
status_exit_code_or_zero(status) == IF IsSome(status.code) THEN Unwrap(status.code) ELSE 0

\* ExitStatus::code().unwrap_or(-1)
status_exit_code(status) == IF IsSome(status.code) THEN Unwrap(status.code) ELSE -1

\* Path::file_name: the last normal component, None for ".", ".." and the root.
RECURSIVE file_name(_)
file_name(dir) ==
    LET ends == {j \in 1..Len(dir) : dir[j] # "/"}
    IN  IF ends = {} THEN None
        ELSE LET e == Max(ends)
                 b == Min({i \in 1..e : \A k \in i..e : dir[k] # "/"})
                 comp == SubSeq(dir, b, e)
             IN  IF comp = <<".", ".">> THEN None
                 ELSE IF comp = <<".">> THEN file_name(SubSeq(dir, 1, b - 1))
                 ELSE Some(comp)

\* The dry-run branches' dir_display.
dir_display(dir) == IF dir = <<".">> THEN current_dir ELSE dir

\* ------------------------------------------------------------- data model
CommandResult(success, exit_code, directory, command, stdout, stderr) ==
    [success |-> success, exit_code |-> exit_code, directory |-> directory,
     command |-> command, stdout |-> stdout, stderr |-> stderr]

DirCommand(dir, cmd) == [dir |-> dir, cmd |-> cmd]

\* One write to standard output: what is printed (kind) and the values it carries.
Line2(kind, a, b, n, m) == [kind |-> kind, a |-> a, b |-> b, n |-> n, m |-> m]
Line(kind, a, b, n) == Line2(kind, a, b, n, 0)

\* What one call of an executor does: the result it returns, the lines it prints
\* before and after waiting for the child, whether it spawns a child, and whether
\* it panics instead of returning.
Call(panics, spawns, result, pre, post) ==
    [panics |-> panics, spawns |-> spawns, result |-> result, pre |-> pre, post |-> post]

\* ---------------------------------------------------------- unit executor
\* The streaming executor's marker after the child has ended (not silent).
stream_marker(dir, success, exit_code) ==
    LET name == file_name(dir)
        dir_name == IF IsSome(name) /\ Unwrap(name) # <<>> THEN Unwrap(name) ELSE <<".">>
    IN  IF success
        THEN IF dir_name = <<".">>
             THEN IF IsSome(file_name(current_dir))
                  THEN Line("ok_dot_base", Unwrap(file_name(current_dir)), <<>>, 0)
                  ELSE Line("ok_dot", <<>>, <<>>, 0)
             ELSE Line("ok", dir_name, <<>>, 0)
        ELSE Line("failed", dir_name, <<>>, exit_code)

\* What the child writes to the inherited streams (nothing when they are null).
inherited_output(config, status) ==
    IF config.silent \/ (status.stdout = <<>> /\ status.stderr = <<>>) THEN <<>>
    ELSE <<Line("child", status.stdout, status.stderr, 0)>>

\* The streaming executor once the directory exists and the command line is
\* resolved and this is no dry run: verbose line, blank line, spawn, wait, marker.
\* A failed spawn panics: .spawn() ... .expect("Failed to execute command").
streaming_spawn(dir, resolved, config) ==
    LET pre == (IF config.verbose THEN <<Line("executing_in", dir, <<>>, 0)>> ELSE <<>>)
               \o (IF ~config.silent THEN <<Line("blank", <<>>, <<>>, 0)>> ELSE <<>>)
    IN  IF ~spawn_ok(dir)
        THEN Call(TRUE, FALSE, CommandResult(FALSE, -1, dir, resolved, <<>>, <<>>),
                  pre, <<>>)
        ELSE LET status == ShellRun(resolved)
                 success == status_success(status)
                 exit_code == status_exit_code(status)
             IN  Call(FALSE, TRUE,
                      CommandResult(success, exit_code, dir, resolved, <<>>, <<>>),
                      pre,
                      inherited_output(config, status)
                      \o (IF ~config.silent
                          THEN <<stream_marker(dir, success, exit_code)>> ELSE <<>>))

\* The streaming executor's dry-run branch.
streaming_dry_run(dir, resolved) ==
    Call(FALSE, FALSE, CommandResult(TRUE, 0, dir, resolved, <<>>, <<>>),
         <<Line("dry_run", dir_display(dir), resolved, 0)>>, <<>>)

\* The streaming executor's missing-directory branch.
streaming_missing(dir, command) ==
    Call(FALSE, FALSE, CommandResult(FALSE, 1, dir, command, <<>>, <<>>),
         <<Line("no_directory", dir, <<>>, 0),
           Line("no_directory_marker",
                IF IsSome(file_name(dir)) THEN Unwrap(file_name(dir)) ELSE <<>>,
                command, 1)>>,
         <<>>)

\* A mutation of the streaming executor: the dry-run flag is not looked at.
streaming_existing_no_dry_run(dir, command, config, aliases) ==
    streaming_spawn(dir, resolved_command(command, aliases), config)

\* The streaming executor for a directory that exists.
streaming_existing(dir, command, config, aliases) ==
    LET resolved == resolved_command(command, aliases)
    IN  IF config.dry_run THEN streaming_dry_run(dir, resolved)
        ELSE streaming_spawn(dir, resolved, config)

execute_command_in_directory(dir, command, config, aliases) ==
    IF ~exists(dir) THEN streaming_missing(dir, command)
    ELSE streaming_existing(dir, command, config, aliases)

\* The capturing executor once the directory exists and the command line is
\* resolved and this is no dry run: Command::output(), Ok or Err.
capturing_spawn(dir, resolved) ==
    IF ~spawn_ok(dir)
    THEN Call(FALSE, FALSE,
              CommandResult(FALSE, -1, dir, resolved, <<>>,
                            <<"Failed to execute: ", "ENOTDIR">>),
              <<>>, <<>>)
    ELSE LET status == ShellRun(resolved)
         IN  Call(FALSE, TRUE,
                  CommandResult(status_success(status), status_exit_code(status), dir,
                                resolved, status.stdout, status.stderr),
                  <<>>, <<>>)

\* A mutation of the capturing executor's dry-run branch: nothing is recorded.
capturing_dry_run_no_record(dir, resolved) ==
    Call(FALSE, FALSE, CommandResult(TRUE, 0, dir, resolved, <<>>, <<>>), <<>>, <<>>)

\* The capturing executor's dry-run branch.
capturing_dry_run(dir, resolved) ==
    Call(FALSE, FALSE,
         CommandResult(TRUE, 0, dir, resolved,
                       <<"[DRY RUN] Would execute in ">> \o dir_display(dir)
                       \o <<":\n  ">> \o resolved,
                       <<>>),
         <<>>, <<>>)

\* The capturing executor's missing-directory branch.
capturing_missing(dir, command) ==
    Call(FALSE, FALSE,
         CommandResult(FALSE, 1, dir, command, <<>>,
                       <<"Directory does not exist: ">> \o dir),
         <<>>, <<>>)

\* A mutation of the capturing executor: the dry-run flag is not looked at.
capturing_existing_no_dry_run(dir, command, config, aliases) ==
    capturing_spawn(dir, resolved_command_capturing(command, aliases))

\* The capturing executor for a directory that exists.
capturing_existing(dir, command, config, aliases) ==
    LET resolved == resolved_command_capturing(command, aliases)
    IN  IF config.dry_run THEN capturing_dry_run(dir, resolved)
        ELSE capturing_spawn(dir, resolved)

\* A mutation of the capturing executor: the dry-run short-circuit comes before
\* the missing-directory guard.
capturing_dry_run_first(dir, command, config, aliases) ==
    IF config.dry_run
    THEN capturing_dry_run(dir, resolved_command_capturing(command, aliases))
    ELSE IF ~exists(dir) THEN capturing_missing(dir, command)
    ELSE capturing_existing(dir, command, config, aliases)

execute_command_in_directory_capturing(dir, command, config, aliases) ==
    IF ~exists(dir) THEN capturing_missing(dir, command)
    ELSE capturing_existing(dir, command, config, aliases)

\* ------------------------------------------------------------ alias table
\* load_aliases_from_file as the run sees it: Ok(table), or Err when the file is
\* unreadable, is not JSON or holds no "aliases" object.
Ok(v) == [ok |-> TRUE, v |-> v]
Err == [ok |-> FALSE, v |-> <<>>]

NoAliases == <<>>

\* A mutation of get_aliases: the shell is asked whatever the global file gave.
get_aliases_shell_always(env) ==
    LET from_global == IF env.home /\ env.global_exists /\ env.global.ok
                       THEN extend(NoAliases, env.global.v) ELSE NoAliases
        from_shell == IF env.shell.ok
                      THEN extend(from_global, env.shell.v) ELSE from_global
    IN  IF env.local.ok THEN extend(from_shell, env.local.v) ELSE from_shell

\* A mutation of get_aliases: an unreadable local file gives up the whole table.
get_aliases_local_fatal(env) ==
    LET from_global == IF env.home /\ env.global_exists /\ env.global.ok
                       THEN extend(NoAliases, env.global.v) ELSE NoAliases
        from_shell == IF from_global = NoAliases /\ env.shell.ok
                      THEN extend(from_global, env.shell.v) ELSE from_global
    IN  IF env.local.ok THEN extend(from_shell, env.local.v) ELSE NoAliases

\* env: HOME set or not, ~/.looprc present or not and what loading it gives, what
\* `sh -c alias` gives (the table its lines parse to), what loading ./.looprc gives.
get_aliases(env) ==
    LET from_global == IF env.home /\ env.global_exists /\ env.global.ok
                       THEN extend(NoAliases, env.global.v) ELSE NoAliases
        from_shell == IF from_global = NoAliases /\ env.shell.ok
                      THEN extend(from_global, env.shell.v) ELSE from_global
    IN  IF env.local.ok THEN extend(from_shell, env.local.v) ELSE from_shell

\* ------------------------------------------------------------------ filters
\* str::trim_end_matches('/')
trim_end_slashes(f) ==
    LET keep == {j \in 1..Len(f) : f[j] # "/"}
    IN  IF keep = {} THEN <<>> ELSE SubSeq(f, 1, Max(keep))

included(dir, includes) == \E k \in 1..Len(includes) : contains(dir, includes[k])

\* A mutation of the exclude test: the filter is matched as written.
excluded_untrimmed(dir, excludes) ==
    \E k \in 1..Len(excludes) : contains(dir, excludes[k])

excluded(dir, excludes) ==
    \E k \in 1..Len(excludes) : contains(dir, trim_end_slashes(excludes[k]))

\* The two retain passes of run and run_commands, on the directory of each item.
filter_commands(config, cmds) ==
    LET after_include ==
            IF IsSome(config.include_filters) /\ Unwrap(config.include_filters) # <<>>
            THEN SelectSeq(cmds, LAMBDA c : included(c.dir, Unwrap(config.include_filters)))
            ELSE cmds
    IN  IF IsSome(config.exclude_filters) /\ Unwrap(config.exclude_filters) # <<>>
        THEN SelectSeq(after_include,
                       LAMBDA c : ~excluded(c.dir, Unwrap(config.exclude_filters)))
        ELSE after_include

\* A mutation of run's filtering: the exclude pass is left out.
filter_dirs_include_only(config, dirs) ==
    IF IsSome(config.include_filters) /\ Unwrap(config.include_filters) # <<>>
    THEN SelectSeq(dirs, LAMBDA p : included(p, Unwrap(config.include_filters)))
    ELSE dirs

\* The two retain passes of run, on config.directories.
filter_dirs(config, dirs) ==
    LET after_include ==
            IF IsSome(config.include_filters) /\ Unwrap(config.include_filters) # <<>>
            THEN SelectSeq(dirs, LAMBDA p : included(p, Unwrap(config.include_filters)))
            ELSE dirs
    IN  IF IsSome(config.exclude_filters) /\ Unwrap(config.exclude_filters) # <<>>
        THEN SelectSeq(after_include,
                       LAMBDA p : ~excluded(p, Unwrap(config.exclude_filters)))
        ELSE after_include

\* run's work list: the same command for each directory left.
build_commands(dirs, command) == [k \in 1..Len(dirs) |-> DirCommand(dirs[k], command)]

\* What run prints while filtering (verbose, with exclude filters): the filter
\* list, then one line per directory that passed the include filters.
run_filter_lines(config, cmds) ==
    LET after_include ==
            IF IsSome(config.include_filters) /\ Unwrap(config.include_filters) # <<>>
            THEN SelectSeq(cmds, LAMBDA c : included(c.dir, Unwrap(config.include_filters)))
            ELSE cmds
    IN  IF IsSome(config.exclude_filters) /\ Unwrap(config.exclude_filters) # <<>>
           /\ config.verbose
        THEN <<Line("exclude_filters", <<>>, <<>>, Len(Unwrap(config.exclude_filters)))>>
             \o [k \in 1..Len(after_include) |->
                    Line("dir_excluded", after_include[k].dir, <<>>,
                         IF excluded(after_include[k].dir, Unwrap(config.exclude_filters))
                         THEN 1 ELSE 0)]
        ELSE <<>>

\* -------------------------------------------------------------------- state
VARIABLES
    config,         \* the LoopConfig of the run (read-only)
    stdout_is_terminal, \* std::io::stdout().is_terminal()
    alias_env,      \* the alias sources as the run finds them
    input,          \* the work list the caller hands to run / run_commands
    pc,             \* where the coordinator is: start, par, seq, summary, reported,
                    \* done (returned) or panicked
    commands,       \* the filtered list execute_commands_internal works on
    aliases,        \* Some(table) once get_aliases has been called
    spinners,       \* per item: none, pending, running, done_ok, done_failed
    status,         \* per item: pending, running (inside the executor), done
    calls,          \* per item: how often an executor was called for it
    spawned,        \* the items for which a child process was spawned
    parallel_results, \* per item: the result its rayon task returned, if any
    results,        \* the shared Vec<CommandResult>
    out,            \* the lines written to standard output, in order
    json_doc,       \* the JsonOutput printed, if any
    summary,        \* total / succeeded / failed as computed after dispatch
    ret,            \* what the run returned: None, Some("Ok") or Some("Err")
    now,            \* the clock, in units of the stagger delay
    dispatched_at,  \* per item a pool thread has taken: the time it was taken at
    invoked,        \* per item: the executor called for it (none, streaming, capturing)
    first_run,      \* what an earlier run with parallel set produced, if the caller
                    \* has run the same work before: Some([results, ret])
    a_command, a_aliases, a_resolved, \* the alias-resolution specification
    f_dirs, f_config, f_kept          \* the filter specification

vars == <<config, stdout_is_terminal, alias_env, input, pc, commands, aliases, spinners,
          status, calls, spawned, parallel_results, results, out, json_doc, summary, ret,
          now, dispatched_at, invoked, first_run, a_command, a_aliases, a_resolved,
          f_dirs, f_config, f_kept>>

run_vars == <<config, stdout_is_terminal, alias_env, input, pc, commands, aliases,
              spinners, status, calls, spawned, parallel_results, results, out, json_doc,
              summary, ret, now, dispatched_at, invoked, first_run>>

alias_vars == <<a_command, a_aliases, a_resolved>>

filter_vars == <<f_dirs, f_config, f_kept>>

\* ------------------------------------------------------------------- inputs
\* The work items the model draws: an aliased command that succeeds and writes
\* to stdout (in two directories), a command that exits 2, a missing directory,
\* and a path that cannot be a working directory.
Items ==
    {DirCommand(DirA, CmdLl), DirCommand(DirAB, CmdLl), DirCommand(DirAB, CmdNo),
     DirCommand(DirMissing, CmdLl), DirCommand(DirFile, CmdLl)}

\* The work lists drawn: up to MaxItems distinct items, in every order.
Inputs ==
    UNION {{f \in [1..n -> Items] : \A i, j \in 1..n : f[i] = f[j] => i = j} :
             n \in 0..MaxItems}

\* The filter pairs drawn: none, an include filter, an exclude filter with a
\* trailing slash, and both.
FilterOptions ==
    {<<None, None>>, <<Some(<<DirA>>), None>>, <<None, Some(<<<<"b", "/">>>>)>>,
     <<Some(<<DirA>>), Some(<<<<"b", "/">>>>)>>}

Configs ==
    {[verbose |-> v, silent |-> s, parallel |-> p, dry_run |-> d, json_output |-> j,
      add_aliases_to_global_looprc |-> FALSE, include_filters |-> f[1],
      exclude_filters |-> f[2], spawn_stagger_ms |-> 0, max_parallel |-> None] :
        v \in BOOLEAN, s \in BOOLEAN, p \in BOOLEAN, d \in BOOLEAN, j \in BOOLEAN,
        f \in FilterOptions}

\* LoopConfig::default(), and no worker cap.
DefaultConfig ==
    [verbose |-> FALSE, silent |-> FALSE, parallel |-> FALSE, dry_run |-> FALSE,
     json_output |-> FALSE, add_aliases_to_global_looprc |-> FALSE,
     include_filters |-> None, exclude_filters |-> None, spawn_stagger_ms |-> 0,
     max_parallel |-> None]

\* ~/.looprc defines ll; the shell and ./.looprc give nothing.
AliasEnv ==
    [home |-> TRUE, global_exists |-> TRUE, global |-> Ok((CmdLl :> CmdLs)),
     shell |-> Ok(NoAliases), local |-> Err]

NoSummary == [total |-> 0, succeeded |-> 0, failed |-> 0, dry_run |-> FALSE]

RunInit ==
    /\ config \in Configs
    \* verbose is read by the streaming executor and by run's exclude pass only.
    /\ config.verbose => \/ ~config.parallel /\ ~config.json_output
                         \/ IsSome(config.exclude_filters)
    \* is_terminal is read in the parallel branch only, and only when not JSON.
    /\ stdout_is_terminal \in (IF config.parallel /\ ~config.json_output
                               THEN BOOLEAN ELSE {FALSE})
    /\ alias_env = AliasEnv
    /\ input \in Inputs
    /\ pc = "start"
    /\ commands = <<>>
    /\ aliases = None
    /\ spinners = <<>>
    /\ status = <<>>
    /\ calls = <<>>
    /\ spawned = {}
    /\ parallel_results = <<>>
    /\ results = <<>>
    /\ out = <<>>
    /\ json_doc = None
    /\ summary = NoSummary
    /\ ret = None
    /\ now = 0
    /\ dispatched_at = <<>>
    /\ invoked = <<>>
    /\ first_run = None

\* The other specifications' variables, at rest.
AliasIdle ==
    /\ a_command = <<>>
    /\ a_aliases = NoAliases
    /\ a_resolved = [streaming |-> None, capturing |-> None]

FilterIdle ==
    /\ f_dirs = <<>>
    /\ f_config = DefaultConfig
    /\ f_kept = [run |-> None, run_commands |-> None]

Init ==
    /\ RunInit
    /\ AliasIdle
    /\ FilterIdle

\* ------------------------------------------------------------- coordinator
N == Len(commands)

\* Path::file_name ... unwrap_or("."), as the parallel branch names a directory.
dir_name_of(dir) == IF IsSome(file_name(dir)) THEN Unwrap(file_name(dir)) ELSE <<".">>

\* A mutation of the entry: the empty work list is not returned early.
enter_internal_no_empty_check(cmds, printed) ==
    /\ out' = out \o printed
    /\ commands' = cmds
    /\ aliases' = Some(get_aliases(alias_env))
    /\ spinners' = [i \in 1..Len(cmds) |->
                      IF config.parallel /\ stdout_is_terminal /\ ~config.json_output
                      THEN "pending" ELSE "none"]
    /\ status' = [i \in 1..Len(cmds) |-> "pending"]
    /\ calls' = [i \in 1..Len(cmds) |-> 0]
    /\ parallel_results' = [i \in 1..Len(cmds) |-> None]
    /\ invoked' = [i \in 1..Len(cmds) |-> "none"]
    /\ pc' = IF config.parallel THEN "par" ELSE "seq"
    /\ UNCHANGED <<config, stdout_is_terminal, alias_env, input, spawned, results,
                   json_doc, summary, ret, alias_vars, filter_vars, first_run, now, dispatched_at>>

\* execute_commands_internal up to the dispatch: the empty list returns Ok at
\* once; otherwise the alias table is built and, in parallel mode, the spinners
\* are created (one per item, in order, when stdout is a terminal and the output
\* is not JSON).  `printed` is what the caller printed while filtering.
enter_internal(cmds, printed) ==
    /\ out' = out \o printed
    /\ IF cmds = <<>>
       THEN /\ pc' = "done"
            /\ ret' = Some("Ok")
            /\ UNCHANGED <<commands, aliases, spinners, status, calls, parallel_results,
                           invoked>>
       ELSE /\ commands' = cmds
            /\ aliases' = Some(get_aliases(alias_env))
            /\ spinners' = [i \in 1..Len(cmds) |->
                              IF config.parallel /\ stdout_is_terminal /\ ~config.json_output
                              THEN "pending" ELSE "none"]
            /\ status' = [i \in 1..Len(cmds) |-> "pending"]
            /\ calls' = [i \in 1..Len(cmds) |-> 0]
            /\ parallel_results' = [i \in 1..Len(cmds) |-> None]
            /\ invoked' = [i \in 1..Len(cmds) |-> "none"]
            /\ pc' = IF config.parallel THEN "par" ELSE "seq"
            /\ ret' = ret
    /\ UNCHANGED <<config, stdout_is_terminal, alias_env, input, spawned, results,
                   json_doc, summary, alias_vars, filter_vars, first_run, now, dispatched_at>>

\* run_commands(config, input)
run_commands ==
    /\ pc = "start"
    /\ enter_internal(filter_commands(config, input), <<>>)

\* run(config, command) with config.directories the directories of the input,
\* for an input whose items all carry the same command.
run ==
    /\ pc = "start"
    /\ ~config.add_aliases_to_global_looprc
    /\ \A i, j \in 1..Len(input) : input[i].cmd = input[j].cmd
    /\ enter_internal(
          build_commands(filter_dirs(config, [k \in 1..Len(input) |-> input[k].dir]),
                         IF input = <<>> THEN <<>> ELSE input[1].cmd),
          run_filter_lines(config, input))

\* A call of the named executor for an item.
call_variant(variant, dir_cmd) ==
    IF variant = "capturing"
    THEN execute_command_in_directory_capturing(dir_cmd.dir, dir_cmd.cmd, config,
                                                Unwrap(aliases))
    ELSE execute_command_in_directory(dir_cmd.dir, dir_cmd.cmd, config, Unwrap(aliases))

\* A mutation of the sequential loop: the streaming executor whatever the mode.
sequential_variant_always_streaming == "streaming"

\* The executor the sequential loop calls: the capturing one for JSON output.
sequential_variant == IF config.json_output THEN "capturing" ELSE "streaming"

sequential_call(dir_cmd) == call_variant(sequential_variant, dir_cmd)

\* The executor a rayon task calls.
parallel_variant == "capturing"

parallel_call(dir_cmd) == call_variant(parallel_variant, dir_cmd)

\* The child of this call never ends.
hangs(call) == call.spawns /\ call.result.command = CmdHang

\* A mutation of the sequential loop: it takes the last item not yet started.
seq_index_last_pending ==
    LET pending == {i \in 1..Len(status) : status[i] = "pending"}
    IN  IF pending = {} THEN Len(status) + 1 ELSE Max(pending)

\* The index the sequential loop is at: the results are pushed in loop order.
seq_index == Len(results) + 1

\* The sequential loop enters the executor for the next item: everything up to
\* the wait for the child.  A failed spawn in the streaming executor panics.
SeqStart ==
    /\ pc = "seq"
    /\ seq_index <= N
    /\ status[seq_index] = "pending"
    /\ LET i == seq_index
           call == sequential_call(commands[i])
       IN  /\ calls' = [calls EXCEPT ![i] = @ + 1]
           /\ invoked' = [invoked EXCEPT ![i] = sequential_variant]
           /\ out' = out \o call.pre
           /\ spawned' = IF call.spawns THEN spawned \cup {i} ELSE spawned
           /\ IF call.panics
              THEN /\ pc' = "panicked"
                   /\ status' = status
              ELSE /\ pc' = pc
                   /\ status' = [status EXCEPT ![i] = "running"]
    /\ UNCHANGED <<config, stdout_is_terminal, alias_env, input, commands, aliases,
                   spinners, parallel_results, results, json_doc, summary, ret,
                   alias_vars, filter_vars, first_run, now, dispatched_at>>

\* The executor returns and the loop pushes the result; after the last item the
\* loop ends.
SeqFinish ==
    /\ pc = "seq"
    /\ seq_index <= N
    /\ status[seq_index] = "running"
    /\ ~hangs(sequential_call(commands[seq_index]))
    /\ LET i == seq_index
           call == sequential_call(commands[i])
       IN  /\ out' = out \o call.post
           /\ results' = Append(results, call.result)
           /\ status' = [status EXCEPT ![i] = "done"]
           /\ pc' = IF i = N THEN "summary" ELSE pc
    /\ UNCHANGED <<config, stdout_is_terminal, alias_env, input, commands, aliases,
                   spinners, calls, spawned, parallel_results, json_doc, summary, ret,
                   alias_vars, filter_vars, first_run, now, dispatched_at, invoked>>

\* A mutation of the spinner lookup: the slot is taken by order of dispatch.
spinner_slot_by_dispatch(i) == Cardinality({j \in 1..N : calls[j] >= 1 /\ j # i}) + 1

\* spinners[i]: the task of item i uses the spinner created for position i.
spinner_slot(i) == i

\* A mutation of the spinner's end: it always shows success.
spinner_finish_always_ok(result) == "done_ok"

\* finish_with_message: the spinner ends with the result's mark.
spinner_finish(result) == IF result.success THEN "done_ok" ELSE "done_failed"

\* A pool thread takes item i: the spinner shows running and the capturing
\* executor is entered.
ParStart(i) ==
    /\ pc = "par"
    /\ status[i] = "pending"
    /\ Cardinality({j \in 1..N : status[j] = "running"}) < NumThreads
    /\ LET call == parallel_call(commands[i])
       IN  /\ calls' = [calls EXCEPT ![i] = @ + 1]
           /\ spawned' = IF call.spawns THEN spawned \cup {i} ELSE spawned
    /\ spinners' = [spinners EXCEPT
                      ![spinner_slot(i)] = IF @ = "none" THEN @ ELSE "running"]
    /\ status' = [status EXCEPT ![i] = "running"]
    /\ dispatched_at' = dispatched_at @@ (i :> now)
    /\ invoked' = [invoked EXCEPT ![i] = parallel_variant]
    /\ UNCHANGED <<config, stdout_is_terminal, alias_env, input, pc, commands, aliases,
                   parallel_results, results, out, json_doc, summary, ret, alias_vars,
                   filter_vars, first_run, now>>

\* The marker a task prints for its item when no spinner shows it.
non_tty_marker(i, result) ==
    IF result.success
    THEN Line2("par_ok", dir_name_of(commands[i].dir), <<>>, i, N)
    ELSE Line2("par_failed", dir_name_of(commands[i].dir), <<result.exit_code>>, i, N)

\* A mutation of the collect: results are stored in the order the tasks finish.
result_slot_by_completion(i) == Cardinality({j \in 1..N : status[j] = "done"}) + 1

\* rayon's collect of an indexed parallel iterator: the value of the task of
\* item i is element i of the collected vector, whenever the task ends.
result_slot(i) == i

\* The executor returns in the task of item i: the spinner is finished (or the
\* marker printed) and the result becomes element i of the collected vector.
ParFinish(i) ==
    /\ pc = "par"
    /\ status[i] = "running"
    /\ ~hangs(parallel_call(commands[i]))
    /\ LET result == parallel_call(commands[i]).result
       IN  /\ parallel_results' = [parallel_results EXCEPT ![result_slot(i)] = Some(result)]
           /\ IF config.json_output
              THEN UNCHANGED <<spinners, out>>
              ELSE IF spinners[spinner_slot(i)] # "none"
                   THEN /\ spinners' = [spinners EXCEPT
                                          ![spinner_slot(i)] = spinner_finish(result)]
                        /\ out' = out
                   ELSE /\ out' = Append(out, non_tty_marker(i, result))
                        /\ spinners' = spinners
    /\ status' = [status EXCEPT ![i] = "done"]
    /\ UNCHANGED <<config, stdout_is_terminal, alias_env, input, pc, commands, aliases,
                   calls, spawned, results, json_doc, summary, ret, alias_vars,
                   filter_vars, first_run, now, dispatched_at, invoked>>

\* The block the post-pass prints for one result with captured output.
captured_block(result) ==
    IF trim_is_empty(result.stdout) /\ trim_is_empty(result.stderr) THEN <<>>
    ELSE <<Line(IF result.success THEN "captured_ok" ELSE "captured_failed",
                dir_name_of(result.directory), <<>>, 0)>>
         \o (IF ~trim_is_empty(result.stdout)
             THEN <<Line("stdout", result.stdout, <<>>, 0)>> ELSE <<>>)
         \o (IF ~trim_is_empty(result.stderr)
             THEN <<Line("stderr", result.stderr, <<>>, 0)>> ELSE <<>>)
         \o <<Line("blank", <<>>, <<>>, 0)>>

\* A mutation of the replay: the blocks are printed last item first.
RECURSIVE captured_blocks_reversed(_)
captured_blocks_reversed(rs) ==
    IF rs = <<>> THEN <<>>
    ELSE captured_blocks_reversed(Tail(rs)) \o captured_block(Head(rs))

RECURSIVE captured_blocks(_)
captured_blocks(rs) ==
    IF rs = <<>> THEN <<>> ELSE captured_block(Head(rs)) \o captured_blocks(Tail(rs))

\* What the parallel branch prints after the collect.
captured_output(rs) ==
    IF config.silent \/ config.json_output THEN <<>>
    ELSE (IF \E k \in 1..Len(rs) : ~trim_is_empty(rs[k].stdout) \/ ~trim_is_empty(rs[k].stderr)
          THEN <<Line("blank2", <<>>, <<>>, 0)>> ELSE <<>>)
         \o captured_blocks(rs)

\* The collected vector, once every task has returned.
collected == [i \in 1..N |-> Unwrap(parallel_results[i])]

\* A mutation of the collect: it does not wait for every task, and takes the
\* results of the tasks that have returned.
ParCollect_early ==
    /\ pc = "par"
    /\ \E i \in 1..N : status[i] = "done"
    /\ LET finished == SelectSeq(parallel_results, LAMBDA r : IsSome(r))
           got == [k \in 1..Len(finished) |-> Unwrap(finished[k])]
       IN  /\ results' = results \o got
           /\ out' = out \o captured_output(results \o got)
    /\ pc' = "summary"
    /\ UNCHANGED <<config, stdout_is_terminal, alias_env, input, commands, aliases,
                   spinners, status, calls, spawned, parallel_results, json_doc, summary,
                   ret, alias_vars, filter_vars, first_run, now, dispatched_at, invoked>>

\* A mutation of the collect: the collected vector is appended twice.
ParCollect_twice ==
    /\ pc = "par"
    /\ \A i \in 1..N : status[i] = "done"
    /\ results' = results \o collected \o collected
    /\ out' = out \o captured_output(results \o collected)
    /\ pc' = "summary"
    /\ UNCHANGED <<config, stdout_is_terminal, alias_env, input, commands, aliases,
                   spinners, status, calls, spawned, parallel_results, json_doc, summary,
                   ret, alias_vars, filter_vars, first_run, now, dispatched_at, invoked>>

\* All tasks have returned: the collected vector is appended to the results and
\* the captured output is printed.
ParCollect ==
    /\ pc = "par"
    /\ \A i \in 1..N : status[i] = "done"
    /\ results' = results \o collected
    /\ out' = out \o captured_output(results \o collected)
    /\ pc' = "summary"
    /\ UNCHANGED <<config, stdout_is_terminal, alias_env, input, commands, aliases,
                   spinners, status, calls, spawned, parallel_results, json_doc, summary,
                   ret, alias_vars, filter_vars, first_run, now, dispatched_at, invoked>>

\* ------------------------------------------------------------------- report
\* A mutation of the failure count: a result fails when its exit code is positive.
failed_results_positive_code(rs) == SelectSeq(rs, LAMBDA r : r.exit_code > 0)

\* results.iter().filter(|r| !r.success)
failed_results(rs) == SelectSeq(rs, LAMBDA r : ~r.success)

\* A mutation of the serialisation: stdout and stderr are always written.
JsonCommandResult_no_skip(r) ==
    [directory |-> r.directory, command |-> r.command, success |-> r.success,
     exit_code |-> r.exit_code, stdout |-> r.stdout, stderr |-> r.stderr]

\* A JsonCommandResult as serialised: stdout and stderr are skipped when empty.
JsonCommandResult(r) ==
    (IF r.stdout = <<>> THEN <<>> ELSE ("stdout" :> r.stdout))
    @@ (IF r.stderr = <<>> THEN <<>> ELSE ("stderr" :> r.stderr))
    @@ [directory |-> r.directory, command |-> r.command, success |-> r.success,
        exit_code |-> r.exit_code]

JsonOutput(rs, total, failed_count) ==
    [success |-> failed_count = 0,
     results |-> [k \in 1..Len(rs) |-> JsonCommandResult(rs[k])],
     summary |-> [total |-> total, succeeded |-> total - failed_count,
                  failed |-> failed_count, dry_run |-> config.dry_run]]

\* A mutation of the text report: the failures are looked at before dry_run.
text_report_failed_first(rs, total, failed_count) ==
    IF failed_count # 0
    THEN <<Line2("summary_failed", <<>>, <<>>, failed_count, total)>>
         \o [k \in 1..failed_count |->
                Line("failed_item", failed_results(rs)[k].directory,
                     failed_results(rs)[k].command, failed_results(rs)[k].exit_code)]
         \o <<Line("blank", <<>>, <<>>, 0)>>
    ELSE IF config.dry_run THEN <<Line("would_run", <<>>, <<>>, total)>>
    ELSE <<Line("complete", <<>>, <<>>, total)>>

\* The text report (not JSON, not silent).
text_report(rs, total, failed_count) ==
    IF config.dry_run THEN <<Line("would_run", <<>>, <<>>, total)>>
    ELSE IF failed_count = 0 THEN <<Line("complete", <<>>, <<>>, total)>>
    ELSE <<Line2("summary_failed", <<>>, <<>>, failed_count, total)>>
         \o [k \in 1..failed_count |->
                Line("failed_item", failed_results(rs)[k].directory,
                     failed_results(rs)[k].command, failed_results(rs)[k].exit_code)]
         \o <<Line("blank", <<>>, <<>>, 0)>>

\* The summary is computed from the results and the report is printed.
Report ==
    /\ pc = "summary"
    /\ LET total == Len(results)
           failed_count == Len(failed_results(results))
       IN  /\ summary' = [total |-> total, succeeded |-> total - failed_count,
                          failed |-> failed_count, dry_run |-> config.dry_run]
           /\ IF config.json_output
              THEN /\ json_doc' = Some(JsonOutput(results, total, failed_count))
                   /\ out' = Append(out, Line("json", <<>>, <<>>, 0))
              ELSE /\ json_doc' = json_doc
                   /\ out' = IF config.silent THEN out
                             ELSE out \o text_report(results, total, failed_count)
    /\ pc' = "reported"
    /\ UNCHANGED <<config, stdout_is_terminal, alias_env, input, commands, aliases,
                   spinners, status, calls, spawned, parallel_results, results, ret,
                   alias_vars, filter_vars, first_run, now, dispatched_at, invoked>>

\* A mutation of the return: the dry-run flag is not looked at.
Return_ignoring_dry_run ==
    /\ pc = "reported"
    /\ ret' = IF summary.failed > 0 THEN Some("Err") ELSE Some("Ok")
    /\ pc' = "done"
    /\ UNCHANGED <<config, stdout_is_terminal, alias_env, input, commands, aliases,
                   spinners, status, calls, spawned, parallel_results, results, out,
                   json_doc, summary, alias_vars, filter_vars, first_run, now, dispatched_at, invoked>>

\* A mutation of the return: the run returns as soon as the results are merged,
\* before the report.
Return_before_report ==
    /\ pc = "summary"
    /\ ret' = IF Len(SelectSeq(results, LAMBDA r : ~r.success)) > 0 /\ ~config.dry_run
              THEN Some("Err") ELSE Some("Ok")
    /\ pc' = "done"
    /\ UNCHANGED <<config, stdout_is_terminal, alias_env, input, commands, aliases,
                   spinners, status, calls, spawned, parallel_results, results, out,
                   json_doc, summary, alias_vars, filter_vars, first_run, now, dispatched_at, invoked>>

\* The run returns: Err when an item failed and this is no dry run.
Return ==
    /\ pc = "reported"
    /\ ret' = IF summary.failed > 0 /\ ~config.dry_run THEN Some("Err") ELSE Some("Ok")
    /\ pc' = "done"
    /\ UNCHANGED <<config, stdout_is_terminal, alias_env, input, commands, aliases,
                   spinners, status, calls, spawned, parallel_results, results, out,
                   json_doc, summary, alias_vars, filter_vars, first_run, now, dispatched_at, invoked>>

Next ==
    \/ run
    \/ run_commands
    \/ SeqStart
    \/ SeqFinish
    \/ \E i \in 1..N : ParStart(i)
    \/ \E i \in 1..N : ParFinish(i)
    \/ ParCollect
    \/ Report
    \/ Return

Spec == Init /\ [][Next]_vars

\* ------------------------------------------- alias resolution, on its own
\* The characters of the command lines drawn, and the alias tables tried.
AliasChars == {"l", "-", "a", " "}

AliasCommands == UNION {[1..n -> AliasChars] : n \in 0..MaxCmdLen}

AliasTables ==
    {NoAliases,
     (<<"l", "l">> :> <<"l", "s", " ", "-", "l">>),
     (<<"l">> :> <<"l", "l">>) @@ (<<"-", "a">> :> <<>>),
     (<<"a">> :> <<"a", " ", "a">>) @@ (<<"l", "a">> :> <<"-">>)}

AliasInit ==
    /\ a_command \in AliasCommands
    /\ a_aliases \in AliasTables
    /\ a_resolved = [streaming |-> None, capturing |-> None]
    /\ config = DefaultConfig
    /\ stdout_is_terminal = FALSE
    /\ alias_env = AliasEnv
    /\ input = <<>>
    /\ pc = "start"
    /\ commands = <<>>
    /\ aliases = None
    /\ spinners = <<>>
    /\ status = <<>>
    /\ calls = <<>>
    /\ spawned = {}
    /\ parallel_results = <<>>
    /\ results = <<>>
    /\ out = <<>>
    /\ json_doc = None
    /\ summary = NoSummary
    /\ ret = None
    /\ now = 0
    /\ dispatched_at = <<>>
    /\ invoked = <<>>
    /\ first_run = None
    /\ FilterIdle

\* The streaming executor resolves the command line.
ResolveStreaming ==
    /\ a_resolved.streaming = None
    /\ a_resolved' = [a_resolved EXCEPT
                        !.streaming = Some(resolved_command(a_command, a_aliases))]
    /\ UNCHANGED <<a_command, a_aliases, run_vars, filter_vars>>

\* The capturing executor resolves the command line.
ResolveCapturing ==
    /\ a_resolved.capturing = None
    /\ a_resolved' = [a_resolved EXCEPT
                        !.capturing = Some(resolved_command_capturing(a_command, a_aliases))]
    /\ UNCHANGED <<a_command, a_aliases, run_vars, filter_vars>>

AliasNext == ResolveStreaming \/ ResolveCapturing

SpecAlias == AliasInit /\ [][AliasNext]_vars

\* -------------------------------------- parallel dispatch against a clock
\* The worker caps and stagger delays (in clock units) drawn.
MaxParallelOptions == {None, Some(1)}

StaggerOptions == {0, 1}

ParConfigs ==
    {[DefaultConfig EXCEPT !.parallel = TRUE, !.silent = s, !.spawn_stagger_ms = g,
                           !.max_parallel = m] :
        s \in BOOLEAN, g \in StaggerOptions, m \in MaxParallelOptions}

ParInit ==
    /\ config \in ParConfigs
    /\ stdout_is_terminal = FALSE
    /\ alias_env = AliasEnv
    /\ input \in Inputs
    /\ pc = "start"
    /\ commands = <<>>
    /\ aliases = None
    /\ spinners = <<>>
    /\ status = <<>>
    /\ calls = <<>>
    /\ spawned = {}
    /\ parallel_results = <<>>
    /\ results = <<>>
    /\ out = <<>>
    /\ json_doc = None
    /\ summary = NoSummary
    /\ ret = None
    /\ now = 0
    /\ dispatched_at = <<>>
    /\ invoked = <<>>
    /\ first_run = None
    /\ AliasIdle
    /\ FilterIdle

\* Time passes while the pool works; nothing in the dispatch waits for it.
Tick ==
    /\ pc = "par"
    /\ now < MaxTime
    /\ now' = now + 1
    /\ UNCHANGED <<config, stdout_is_terminal, alias_env, input, pc, commands, aliases,
                   spinners, status, calls, spawned, parallel_results, results, out,
                   json_doc, summary, ret, dispatched_at, invoked, alias_vars,
                   filter_vars, first_run>>

ParNext ==
    \/ run_commands
    \/ \E i \in 1..N : ParStart(i)
    \/ \E i \in 1..N : ParFinish(i)
    \/ ParCollect
    \/ Report
    \/ Return
    \/ Tick

SpecParallel == ParInit /\ [][ParNext]_vars

\* ------------------------------------------------- filtering, on its own
\* The characters of the directory names and filters drawn.
FilterChars == {"a", "/"}

FilterDirNames == UNION {[1..n -> FilterChars] : n \in 0..MaxDirLen}

FilterDirLists == UNION {[1..n -> FilterDirNames] : n \in 0..MaxDirs}

\* The filter lists drawn: absent, empty, one filter (plain, with a trailing
\* slash, only a slash, with a leading slash), two filters.
FilterLists ==
    {None, Some(<<>>), Some(<<<<"a">>>>), Some(<<<<"a", "/">>>>), Some(<<<<"/">>>>),
     Some(<<<<"/", "a">>>>), Some(<<<<"a", "a">>, <<"/", "/">>>>)}

FilterConfigs ==
    {[DefaultConfig EXCEPT !.include_filters = i, !.exclude_filters = e] :
        i \in FilterLists, e \in FilterLists}

\* The work list run_commands is given for a list of directories.
FilterItems(dirs) ==
    [k \in 1..Len(dirs) |-> DirCommand(dirs[k], IF k % 2 = 1 THEN CmdLl ELSE CmdNo)]

FilterInit ==
    /\ f_dirs \in FilterDirLists
    /\ f_config \in FilterConfigs
    /\ f_kept = [run |-> None, run_commands |-> None]
    /\ config = DefaultConfig
    /\ stdout_is_terminal = FALSE
    /\ alias_env = AliasEnv
    /\ input = <<>>
    /\ pc = "start"
    /\ commands = <<>>
    /\ aliases = None
    /\ spinners = <<>>
    /\ status = <<>>
    /\ calls = <<>>
    /\ spawned = {}
    /\ parallel_results = <<>>
    /\ results = <<>>
    /\ out = <<>>
    /\ json_doc = None
    /\ summary = NoSummary
    /\ ret = None
    /\ now = 0
    /\ dispatched_at = <<>>
    /\ invoked = <<>>
    /\ first_run = None
    /\ AliasIdle

\* run filters config.directories and builds its work list.
FilterRun ==
    /\ f_kept.run = None
    /\ f_kept' = [f_kept EXCEPT
                    !.run = Some(build_commands(filter_dirs(f_config, f_dirs), CmdLs))]
    /\ UNCHANGED <<f_dirs, f_config, run_vars, alias_vars>>

\* run_commands filters the work list it is given.
FilterRunCommands ==
    /\ f_kept.run_commands = None
    /\ f_kept' = [f_kept EXCEPT
                    !.run_commands = Some(filter_commands(f_config, FilterItems(f_dirs)))]
    /\ UNCHANGED <<f_dirs, f_config, run_vars, alias_vars>>

FilterNext == FilterRun \/ FilterRunCommands

SpecFilter == FilterInit /\ [][FilterNext]_vars

\* ------------------------------------- the replay of captured output
\* Parallel runs over items with output, without output and with blank output.
ReplayItems ==
    {DirCommand(DirA, CmdLl), DirCommand(DirAB, CmdNo), DirCommand(DirA, CmdKill),
     DirCommand(DirAB, CmdBlank)}

ReplayInputs ==
    UNION {{f \in [1..n -> ReplayItems] : \A i, j \in 1..n : f[i] = f[j] => i = j} :
             n \in 0..MaxItems}

ReplayConfigs ==
    {[DefaultConfig EXCEPT !.parallel = TRUE, !.silent = s, !.json_output = j] :
        s \in BOOLEAN, j \in BOOLEAN}

ReplayInit ==
    /\ config \in ReplayConfigs
    /\ stdout_is_terminal \in (IF config.json_output THEN {FALSE} ELSE BOOLEAN)
    /\ alias_env = AliasEnv
    /\ input \in ReplayInputs
    /\ pc = "start"
    /\ commands = <<>>
    /\ aliases = None
    /\ spinners = <<>>
    /\ status = <<>>
    /\ calls = <<>>
    /\ spawned = {}
    /\ parallel_results = <<>>
    /\ results = <<>>
    /\ out = <<>>
    /\ json_doc = None
    /\ summary = NoSummary
    /\ ret = None
    /\ now = 0
    /\ dispatched_at = <<>>
    /\ invoked = <<>>
    /\ first_run = None
    /\ AliasIdle
    /\ FilterIdle

ReplayNext ==
    \/ run_commands
    \/ \E i \in 1..N : ParStart(i)
    \/ \E i \in 1..N : ParFinish(i)
    \/ ParCollect
    \/ Report
    \/ Return

SpecReplay == ReplayInit /\ [][ReplayNext]_vars

\* ------------------------------------------------- runs to their end
\* Runs over items that end, an item whose child never ends, an item whose
\* child cannot be spawned and an item without directory, with the threads
\* scheduled fairly.
LiveItems ==
    {DirCommand(DirA, CmdLl), DirCommand(DirA, CmdHang), DirCommand(DirFile, CmdLl),
     DirCommand(DirMissing, CmdLl)}

LiveInputs ==
    UNION {{f \in [1..n -> LiveItems] : \A i, j \in 1..n : f[i] = f[j] => i = j} :
             n \in 0..MaxItems}

LiveConfigs ==
    {[DefaultConfig EXCEPT !.parallel = p, !.json_output = j, !.dry_run = d] :
        p \in BOOLEAN, j \in BOOLEAN, d \in BOOLEAN}

LiveInit ==
    /\ config \in LiveConfigs
    /\ stdout_is_terminal = FALSE
    /\ alias_env = AliasEnv
    /\ input \in LiveInputs
    /\ pc = "start"
    /\ commands = <<>>
    /\ aliases = None
    /\ spinners = <<>>
    /\ status = <<>>
    /\ calls = <<>>
    /\ spawned = {}
    /\ parallel_results = <<>>
    /\ results = <<>>
    /\ out = <<>>
    /\ json_doc = None
    /\ summary = NoSummary
    /\ ret = None
    /\ now = 0
    /\ dispatched_at = <<>>
    /\ invoked = <<>>
    /\ first_run = None
    /\ AliasIdle
    /\ FilterIdle

\* Every thread that can take a step eventually takes one.
SpecLive == LiveInit /\ [][Next]_vars /\ WF_vars(Next)

\* ----------------------------------------------- every kind of Outcome
\* Runs over items of every kind: a child that exits 0, one that exits 2, one
\* ended by a signal, a missing directory, a launch that fails.
OutcomeItems ==
    {DirCommand(DirA, CmdLl), DirCommand(DirAB, CmdNo), DirCommand(DirA, CmdKill),
     DirCommand(DirMissing, CmdLl), DirCommand(DirFile, CmdLl)}

OutcomeInputs ==
    UNION {{f \in [1..n -> OutcomeItems] : \A i, j \in 1..n : f[i] = f[j] => i = j} :
             n \in 0..MaxItems}

OutcomeConfigs ==
    {[DefaultConfig EXCEPT !.parallel = p, !.json_output = j, !.dry_run = d,
                           !.silent = TRUE] :
        p \in BOOLEAN, j \in BOOLEAN, d \in BOOLEAN}

OutcomeInit ==
    /\ config \in OutcomeConfigs
    /\ stdout_is_terminal = FALSE
    /\ alias_env = AliasEnv
    /\ input \in OutcomeInputs
    /\ pc = "start"
    /\ commands = <<>>
    /\ aliases = None
    /\ spinners = <<>>
    /\ status = <<>>
    /\ calls = <<>>
    /\ spawned = {}
    /\ parallel_results = <<>>
    /\ results = <<>>
    /\ out = <<>>
    /\ json_doc = None
    /\ summary = NoSummary
    /\ ret = None
    /\ now = 0
    /\ dispatched_at = <<>>
    /\ invoked = <<>>
    /\ first_run = None
    /\ AliasIdle
    /\ FilterIdle

SpecOutcome == OutcomeInit /\ [][Next]_vars

\* ------------------------------------- the same work, concurrent then sequential
\* What a caller can compare of a finished run: per result its success, exit
\* code, directory and command, in order.
signature(rs) ==
    [k \in 1..Len(rs) |->
        [success |-> rs[k].success, exit_code |-> rs[k].exit_code,
         directory |-> rs[k].directory, command |-> rs[k].command]]

EquivConfigs ==
    {[DefaultConfig EXCEPT !.parallel = TRUE, !.json_output = j, !.dry_run = d,
                           !.silent = TRUE] :
        j \in BOOLEAN, d \in BOOLEAN}

EquivInit ==
    /\ config \in EquivConfigs
    /\ stdout_is_terminal = FALSE
    /\ alias_env = AliasEnv
    /\ input \in Inputs
    /\ pc = "start"
    /\ commands = <<>>
    /\ aliases = None
    /\ spinners = <<>>
    /\ status = <<>>
    /\ calls = <<>>
    /\ spawned = {}
    /\ parallel_results = <<>>
    /\ results = <<>>
    /\ out = <<>>
    /\ json_doc = None
    /\ summary = NoSummary
    /\ ret = None
    /\ now = 0
    /\ dispatched_at = <<>>
    /\ invoked = <<>>
    /\ first_run = None
    /\ AliasIdle
    /\ FilterIdle

\* The caller, after a run with parallel set has returned, runs the same work
\* list again with the same configuration but parallel unset.
Rerun ==
    /\ pc = "done"
    /\ config.parallel
    /\ first_run = None
    /\ first_run' = Some([results |-> signature(results), ret |-> ret])
    /\ config' = [config EXCEPT !.parallel = FALSE]
    /\ pc' = "start"
    /\ commands' = <<>>
    /\ aliases' = None
    /\ spinners' = <<>>
    /\ status' = <<>>
    /\ calls' = <<>>
    /\ spawned' = {}
    /\ parallel_results' = <<>>
    /\ results' = <<>>
    /\ out' = <<>>
    /\ json_doc' = None
    /\ summary' = NoSummary
    /\ ret' = None
    /\ now' = 0
    /\ dispatched_at' = <<>>
    /\ invoked' = <<>>
    /\ UNCHANGED <<stdout_is_terminal, alias_env, input, alias_vars, filter_vars>>

EquivNext == Next \/ Rerun

SpecEquiv == EquivInit /\ [][EquivNext]_vars

\* ------------------------------------------- the alias sources, on their own
\* What a source can give: a failure, or a table over the keys ll and g whose
\* values tell the source.
SourceTables(v) ==
    {NoAliases, (CmdLl :> v), (<<"g">> :> v), (CmdLl :> v) @@ (<<"g">> :> v)}

SourceResults(v) == {Err} \cup {Ok(t) : t \in SourceTables(v)}

AliasEnvs ==
    [home : BOOLEAN, global_exists : BOOLEAN, global : SourceResults(<<"G">>),
     shell : SourceResults(<<"S">>), local : SourceResults(<<"L">>)]

SourcesInit ==
    /\ alias_env \in AliasEnvs
    /\ input = <<DirCommand(DirA, CmdLl)>>
    /\ config = DefaultConfig
    /\ stdout_is_terminal = FALSE
    /\ pc = "start"
    /\ commands = <<>>
    /\ aliases = None
    /\ spinners = <<>>
    /\ status = <<>>
    /\ calls = <<>>
    /\ spawned = {}
    /\ parallel_results = <<>>
    /\ results = <<>>
    /\ out = <<>>
    /\ json_doc = None
    /\ summary = NoSummary
    /\ ret = None
    /\ now = 0
    /\ dispatched_at = <<>>
    /\ invoked = <<>>
    /\ first_run = None
    /\ AliasIdle
    /\ FilterIdle

\* The run up to the point where the table is built and shared.
SourcesNext == run_commands

SpecSources == SourcesInit /\ [][SourcesNext]_vars

\* =================================================================== claims
\* The executor the coordinator uses for an item: the capturing one in parallel
\* mode and for JSON output, the streaming one otherwise.
expected_call(i) ==
    IF config.parallel \/ config.json_output
    THEN execute_command_in_directory_capturing(commands[i].dir, commands[i].cmd, config,
                                                get_aliases(alias_env))
    ELSE execute_command_in_directory(commands[i].dir, commands[i].cmd, config,
                                      get_aliases(alias_env))

\* The dispatch is over: the coordinator is building the summary or beyond.
Dispatched == pc \in {"summary", "reported", "done"} /\ commands # <<>>

\* The Outcome of item i, as far as one exists yet.
outcome_of(i) ==
    IF i <= Len(results) THEN Some(results[i])
    ELSE IF i <= Len(parallel_results) THEN parallel_results[i]
    ELSE None

failed_indices == {i \in 1..Len(results) : ~results[i].success}

\* C1: once the dispatch is over, in sequential and in parallel mode and for
\* every order in which the items finished, the result list is as long as the
\* work list and its i-th element is the outcome of the i-th work item.
C1_PositionalResults ==
    Dispatched =>
        /\ Len(results) = Len(commands)
        /\ \A i \in 1..Len(commands) :
              /\ results[i].directory = commands[i].dir
              /\ results[i] = expected_call(i).result

\* C1 witness: a parallel run of three items with different outcomes has
\* returned.
C1_Witness ==
    /\ pc = "done"
    /\ config.parallel
    /\ Len(commands) = 3
    /\ results[1].success /\ ~results[2].success /\ results[3].success

\* C2: for a non-empty work list the summary has total = number of items and
\* succeeded + failed = total, failed being the number of results that did not
\* succeed.
C2_SummaryCounts ==
    (pc \in {"reported", "done"} /\ commands # <<>>) =>
        /\ summary.total = Len(commands)
        /\ summary.total = Len(filter_commands(config, input))
        /\ summary.succeeded + summary.failed = summary.total
        /\ summary.failed = Cardinality(failed_indices)

\* C2 witness: a summary of three items, two of them failed.
C2_Witness ==
    /\ pc = "reported"
    /\ summary.total = 3
    /\ summary.failed = 2
    /\ summary.succeeded = 1

\* C3: a run that returns returns Err exactly when some result failed and this
\* is no dry run, and Ok in every other case; nothing is returned before.
C3_ReturnRule ==
    /\ pc = "done" =>
          /\ ret \in {Some("Ok"), Some("Err")}
          /\ ret = Some("Err") <=> (failed_indices # {} /\ ~config.dry_run)
    /\ pc \notin {"done"} => ret = None

\* C3 witness: a parallel run with a failed item returned Err.
C3_Witness ==
    /\ pc = "done"
    /\ config.parallel
    /\ ~config.dry_run
    /\ failed_indices # {}
    /\ ret = Some("Err")

\* C4 as stated: every dry run ends with summary.failed = 0 and returns Ok.
C4_DryRunNeverFails ==
    (pc = "done" /\ config.dry_run) => (summary.failed = 0 /\ ret = Some("Ok"))

\* C4 amended: every dry run returns Ok, and its summary.failed is the number
\* of items whose directory does not exist: 0 when all directories exist, also
\* when the commands would fail.
C4_DryRunFailsOnlyMissing ==
    (pc = "done" /\ config.dry_run) =>
        /\ ret = Some("Ok")
        /\ summary.failed = Cardinality({i \in 1..Len(commands) : ~exists(commands[i].dir)})

\* C4 witness: a dry run with an item whose command exits 2 and an item whose
\* directory cannot be a working directory returned with no failure counted.
C4_Witness ==
    /\ pc = "done"
    /\ config.dry_run
    /\ \E i \in 1..Len(commands) : commands[i] = DirCommand(DirAB, CmdNo)
    /\ \E i \in 1..Len(commands) : commands[i].dir = DirFile
    /\ summary.total >= 2
    /\ summary.failed = 0

\* C5: in a dry run no child process is spawned, whatever the executor and the
\* dispatch mode.
C5_DryRunSpawnsNothing == config.dry_run => spawned = {}

\* C5 witness: a sequential dry run with the streaming executor has executed
\* every item, one of them in a directory that exists.
C5_Witness ==
    /\ pc = "done"
    /\ config.dry_run
    /\ ~config.parallel /\ ~config.json_output
    /\ \E i \in 1..Len(commands) : exists(commands[i].dir) /\ calls[i] = 1

\* C6: an item whose directory does not exist never spawns a process, and its
\* Outcome has success = false and exit code 1, with either executor and with
\* or without dry-run.
C6_MissingDirectory ==
    \A i \in 1..Len(commands) :
        ~exists(commands[i].dir) =>
            /\ i \notin spawned
            /\ IsSome(outcome_of(i)) =>
                  /\ ~Unwrap(outcome_of(i)).success
                  /\ Unwrap(outcome_of(i)).exit_code = 1

\* C6 witness: a dry run has produced the Outcome of an item whose directory is
\* missing, by the capturing executor.
C6_Witness ==
    /\ config.dry_run
    /\ config.parallel
    /\ \E i \in 1..Len(commands) :
          ~exists(commands[i].dir) /\ IsSome(outcome_of(i)) /\ calls[i] = 1

\* The resolution the claim describes: the first token, where it stands, is
\* replaced by its expansion when it is a key of the table.
expected_resolution(command, table) ==
    LET nonws == {i \in 1..Len(command) : ~is_whitespace(command[i])}
    IN  IF nonws = {} THEN command
        ELSE LET b == Min(nonws)
                 after == {j \in b..Len(command) : is_whitespace(command[j])}
                 e == IF after = {} THEN Len(command) ELSE Min(after) - 1
                 token == SubSeq(command, b, e)
             IN  IF token \in DOMAIN table
                 THEN SubSeq(command, 1, b - 1) \o table[token]
                      \o SubSeq(command, e + 1, Len(command))
                 ELSE command

LlDashA == <<"l", "l", " ", "-", "a">>
LsDashLDashA == <<"l", "s", " ", "-", "l", " ", "-", "a">>
LlTable == (<<"l", "l">> :> <<"l", "s", " ", "-", "l">>)

\* C7: both executors resolve a command line to the command line with its
\* first token replaced, once, by the token's expansion when the token is a key
\* of the alias table, and to the command line itself otherwise; with
\* {ll -> ls -l}, 'll -a' gives 'ls -l -a'.
C7_AliasResolution ==
    /\ IsSome(a_resolved.streaming) =>
          Unwrap(a_resolved.streaming) = expected_resolution(a_command, a_aliases)
    /\ IsSome(a_resolved.capturing) =>
          Unwrap(a_resolved.capturing) = expected_resolution(a_command, a_aliases)
    /\ (a_command = LlDashA /\ a_aliases = LlTable /\ IsSome(a_resolved.streaming)) =>
          Unwrap(a_resolved.streaming) = LsDashLDashA

\* C7 witness: both executors have resolved 'll -a' to 'ls -l -a'.
C7_Witness ==
    /\ a_command = LlDashA
    /\ a_aliases = LlTable
    /\ a_resolved.streaming = Some(LsDashLDashA)
    /\ a_resolved.capturing = Some(LsDashLDashA)

\* What run prints while filtering; everything else printed is the coordinator's.
FilterKinds == {"exclude_filters", "dir_excluded"}

\* C8: when the (filtered) work list is empty the run returns Ok at once: the
\* alias table is not built, nothing is dispatched or spawned, and the
\* coordinator prints nothing, whatever the configuration.
C8_EmptyListNoOp ==
    (pc # "start" /\ filter_commands(config, input) = <<>>) =>
        /\ pc = "done"
        /\ ret = Some("Ok")
        /\ aliases = None
        /\ calls = <<>> /\ status = <<>> /\ spinners = <<>>
        /\ spawned = {}
        /\ results = <<>>
        /\ json_doc = None
        /\ \A k \in 1..Len(out) : out[k].kind \in FilterKinds

\* C8 witness: a JSON run whose work list became empty by filtering returned.
C8_Witness ==
    /\ pc = "done"
    /\ config.json_output
    /\ input # <<>>
    /\ filter_commands(config, input) = <<>>
    /\ ret = Some("Ok")

\* The lines of the captured-output pass and of the report.
AfterDispatchKinds ==
    {"blank2", "captured_ok", "captured_failed", "stdout", "stderr", "json",
     "would_run", "complete", "summary_failed", "failed_item"}

\* C9: in parallel mode, whenever results have been merged, captured output or
\* the report printed, or the run has returned, every item is done: none is
\* pending or running.
C9_NoReportBeforeAllDone ==
    (/\ config.parallel
     /\ \/ results # <<>>
        \/ pc \in {"summary", "reported", "done"}
        \/ json_doc # None
        \/ ret # None
        \/ \E k \in 1..Len(out) : out[k].kind \in AfterDispatchKinds)
    => \A i \in 1..Len(commands) : status[i] = "done" /\ IsSome(parallel_results[i])

\* C9 witness: a parallel run of three items has printed its report.
C9_Witness ==
    /\ config.parallel
    /\ Len(commands) = 3
    /\ pc = "reported"
    /\ \E k \in 1..Len(out) : out[k].kind \in AfterDispatchKinds

\* C10 as stated: the run never aborts, and once the dispatch is over every item
\* has been executed exactly once and has its Outcome.
C10_FailuresRecoveredLocally ==
    /\ pc # "panicked"
    /\ Dispatched =>
          /\ Len(results) = Len(commands)
          /\ \A i \in 1..Len(commands) : calls[i] = 1

\* An item whose child process cannot be spawned in this run.
launch_fails(i) ==
    exists(commands[i].dir) /\ ~spawn_ok(commands[i].dir) /\ ~config.dry_run

\* C11 as stated: once an executor has been called for an item whose child
\* cannot be spawned and is no longer inside it, the item has an Outcome with
\* success = false, exit code -1 and a diagnostic in stderr, with either
\* executor.
C11_LaunchFailureOutcome ==
    \A i \in 1..Len(commands) :
        (launch_fails(i) /\ calls[i] >= 1 /\ status[i] # "running") =>
            /\ IsSome(outcome_of(i))
            /\ ~Unwrap(outcome_of(i)).success
            /\ Unwrap(outcome_of(i)).exit_code = -1
            /\ Unwrap(outcome_of(i)).stderr # <<>>

\* The lines of the report proper.
ReportKinds == {"json", "would_run", "complete", "summary_failed", "failed_item"}

report_lines == SelectSeq(out, LAMBDA l : l.kind \in ReportKinds)

\* C12 as stated: a run that has returned Err has completed every item and has
\* rendered a report (the structured document or the textual summary) before.
C12_ErrorAfterRenderedReport ==
    ret = Some("Err") =>
        /\ \A i \in 1..Len(commands) : status[i] = "done"
        /\ report_lines # <<>>

\* C12 amended: a run that has returned Err has completed every item and has
\* gone through the report before: the structured document is printed in JSON
\* mode, the failure summary in text mode unless silent, and nothing in a silent
\* text run.  A report is printed only when every item is done, and it is there
\* before the run returns.
C12_ErrorAfterReportStep ==
    /\ ret = Some("Err") =>
          /\ \A i \in 1..Len(commands) : status[i] = "done"
          /\ Len(results) = Len(commands)
          /\ summary.failed > 0
          /\ config.json_output =>
                (json_doc # None /\ report_lines = <<Line("json", <<>>, <<>>, 0)>>)
          /\ (~config.json_output /\ ~config.silent) =>
                (report_lines # <<>> /\ report_lines[1].kind = "summary_failed")
          /\ (~config.json_output /\ config.silent) => report_lines = <<>>
    /\ report_lines # <<>> =>
          /\ \A i \in 1..Len(commands) : status[i] = "done"
          /\ pc \in {"reported", "done"}
    /\ pc = "reported" => ret = None

\* C12 witness: a parallel JSON run with a failed item has returned Err.
C12_Witness ==
    /\ ret = Some("Err")
    /\ config.parallel
    /\ config.json_output
    /\ Len(commands) >= 2

\* C13 as stated: a silent run writes nothing to standard output.
C13_SilentPrintsNothing == config.silent => out = <<>>

\* C14 as stated: a JSON run of a non-empty work list that has returned has
\* written exactly one structured document and nothing else, and a run that is
\* not a JSON run writes no structured document.
C14_NoMixedOutput ==
    /\ (config.json_output /\ pc \in {"reported", "done"} /\ commands # <<>>) =>
          out = <<Line("json", <<>>, <<>>, 0)>>
    /\ (config.json_output /\ pc \notin {"reported", "done"}) => out = <<>>
    /\ ~config.json_output =>
          (json_doc = None /\ \A k \in 1..Len(out) : out[k].kind # "json")

\* The captured text records directory d and command line c, in this order:
\* a label, the directory, a separator, the command line.
records_what_would_run(text, d, c) ==
    /\ Len(text) = Len(d) + Len(c) + 2
    /\ SubSeq(text, 2, Len(d) + 1) = d
    /\ SubSeq(text, Len(d) + 3, Len(text)) = c

\* The Outcome of a dry run in an existing directory: success, exit code 0, the
\* resolved command line.
dry_run_outcome(i) ==
    /\ Unwrap(outcome_of(i)).success
    /\ Unwrap(outcome_of(i)).exit_code = 0
    /\ Unwrap(outcome_of(i)).command =
          expected_resolution(commands[i].cmd, get_aliases(alias_env))

\* C17 as stated: in a dry run the Outcome of an item whose directory exists has
\* success = true, exit code 0, the resolved command line, and a captured output
\* that records the directory and the resolved command line, with either
\* executor.
C17_DryRunRecordsInOutcome ==
    \A i \in 1..Len(commands) :
        (config.dry_run /\ exists(commands[i].dir) /\ IsSome(outcome_of(i))) =>
            /\ dry_run_outcome(i)
            /\ records_what_would_run(
                  Unwrap(outcome_of(i)).stdout, dir_display(commands[i].dir),
                  expected_resolution(commands[i].cmd, get_aliases(alias_env)))

\* C17 amended: in a dry run the Outcome of an item whose directory exists has
\* success = true, exit code 0 and the resolved command line; the capturing
\* executor records the directory and the resolved command line in the
\* Outcome's stdout, the streaming executor prints them and leaves the Outcome's
\* stdout and stderr empty.
C17_DryRunRecordsOrPrints ==
    \A i \in 1..Len(commands) :
        (config.dry_run /\ exists(commands[i].dir) /\ IsSome(outcome_of(i))) =>
            LET o == Unwrap(outcome_of(i))
                d == dir_display(commands[i].dir)
                c == expected_resolution(commands[i].cmd, get_aliases(alias_env))
            IN  /\ dry_run_outcome(i)
                /\ o.stderr = <<>>
                /\ IF config.parallel \/ config.json_output
                   THEN records_what_would_run(o.stdout, d, c)
                   ELSE /\ o.stdout = <<>>
                        /\ \E k \in 1..Len(out) :
                              out[k].kind = "dry_run" /\ out[k].a = d /\ out[k].b = c

\* C17 witness: dry runs with the capturing executor have produced the Outcome
\* of an aliased command line in a directory that exists.
C17_Witness ==
    /\ config.dry_run
    /\ config.json_output
    /\ get_aliases(alias_env) # NoAliases
    /\ \E i \in 1..Len(commands) :
          /\ exists(commands[i].dir)
          /\ commands[i].cmd = CmdLl
          /\ IsSome(outcome_of(i))
          /\ Unwrap(outcome_of(i)).stdout # <<>>

\* The k-th smallest element of a set of indices.
kth(S, k) == CHOOSE i \in S : Cardinality({j \in S : j < i}) = k - 1

C19_JsonSkipsEmptyText ==
    json_doc # None =>
        LET doc == Unwrap(json_doc)
        IN  /\ DOMAIN doc.results = 1..Len(results)
            /\ \A k \in 1..Len(results) :
                  LET j == doc.results[k]
                      r == results[k]
                  IN  /\ {"directory", "command", "success", "exit_code"}
                            \subseteq DOMAIN j
                      /\ j["directory"] = r.directory
                      /\ j["command"] = r.command
                      /\ j["success"] = r.success
                      /\ j["exit_code"] = r.exit_code
                      /\ ("stdout" \in DOMAIN j) <=> (r.stdout # <<>>)
                      /\ ("stderr" \in DOMAIN j) <=> (r.stderr # <<>>)
                      /\ ("stdout" \in DOMAIN j) => j["stdout"] = r.stdout
                      /\ ("stderr" \in DOMAIN j) => j["stderr"] = r.stderr

\* C19 witness: a JSON document holds a result with stdout and no stderr and a
\* result with stderr and no stdout.
C19_Witness ==
    /\ json_doc # None
    /\ \E k \in 1..Len(results) : results[k].stdout # <<>> /\ results[k].stderr = <<>>
    /\ \E k \in 1..Len(results) : results[k].stdout = <<>> /\ results[k].stderr # <<>>

\* The pool size as claimed: the configured cap when one is set, else the
\* hardware parallelism.
pool_size ==
    IF IsSome(config.max_parallel) THEN Unwrap(config.max_parallel) ELSE NumThreads

\* C15 as stated: in parallel mode no more items are inside the executor at the
\* same time than the pool size, which is the configured cap when one is set.
C15_PoolBound ==
    config.parallel =>
        Cardinality({i \in 1..Len(commands) : status[i] = "running"}) <= pool_size

\* C16 as stated: with a stagger delay, any two items are dispatched at least
\* the delay apart.
C16_StaggeredSpawns ==
    config.spawn_stagger_ms > 0 =>
        \A i, j \in DOMAIN dispatched_at :
            (i # j /\ dispatched_at[i] <= dispatched_at[j]) =>
                dispatched_at[j] - dispatched_at[i] >= config.spawn_stagger_ms

\* d[i+1..i+Len(f)] = f for some i.
has_substring(d, f) ==
    \E i \in 0..Len(d) :
        /\ i + Len(f) <= Len(d)
        /\ \A k \in 1..Len(f) : d[i + k] = f[k]

\* f without its trailing slashes.
without_trailing_slashes(f) ==
    LET n == CHOOSE m \in 0..Len(f) :
                 /\ m = 0 \/ f[m] # "/"
                 /\ \A k \in (m + 1)..Len(f) : f[k] = "/"
    IN  [k \in 1..n |-> f[k]]

\* The directory passes the filters of f_config.
passes_filters(d) ==
    LET inc == f_config.include_filters
        exc == f_config.exclude_filters
    IN  /\ (IsSome(inc) /\ Unwrap(inc) # <<>>) =>
              \E k \in 1..Len(Unwrap(inc)) : has_substring(d, Unwrap(inc)[k])
        /\ (IsSome(exc) /\ Unwrap(exc) # <<>>) =>
              \A k \in 1..Len(Unwrap(exc)) :
                  ~has_substring(d, without_trailing_slashes(Unwrap(exc)[k]))

\* kept is the sublist of all, in order, of the elements whose directory passes.
is_filtered_sublist(kept, all) ==
    LET idx == {i \in 1..Len(all) : passes_filters(all[i].dir)}
    IN  /\ Len(kept) = Cardinality(idx)
        /\ \A k \in 1..Len(kept) : kept[k] = all[kth(idx, k)]

\* C20: the work list run builds from config.directories, and the work list
\* run_commands keeps, is the sublist, in order, of the items whose directory
\* contains an include filter (when there are include filters) and contains no
\* exclude filter with its trailing slashes removed (when there are exclude
\* filters); absent and empty filter lists remove nothing.
C20_FilteredSublist ==
    /\ IsSome(f_kept.run) =>
          is_filtered_sublist(Unwrap(f_kept.run), build_commands(f_dirs, CmdLs))
    /\ IsSome(f_kept.run_commands) =>
          is_filtered_sublist(Unwrap(f_kept.run_commands), FilterItems(f_dirs))
    /\ \A side \in {"run", "run_commands"} :
          (/\ IsSome(f_kept[side])
           /\ f_config.include_filters \in {None, Some(<<>>)}
           /\ f_config.exclude_filters \in {None, Some(<<>>)}) =>
              Len(Unwrap(f_kept[side])) = Len(f_dirs)

\* C20 witness: both entry points have filtered two directories with an include
\* filter and an exclude filter that ends in a slash; one directory is kept, the
\* other contains the exclude filter only once its trailing slash is removed.
C20_Witness ==
    /\ IsSome(f_kept.run) /\ IsSome(f_kept.run_commands)
    /\ f_config.include_filters = Some(<<<<"/">>>>)
    /\ f_config.exclude_filters = Some(<<<<"a", "/">>>>)
    /\ Len(f_dirs) = 2
    /\ Len(Unwrap(f_kept.run)) = 1
    /\ Len(Unwrap(f_kept.run_commands)) = 1
    /\ \E k \in 1..2 : has_substring(f_dirs[k], <<"a">>)
                       /\ ~has_substring(f_dirs[k], <<"a", "/">>)
                       /\ has_substring(f_dirs[k], <<"/">>)

\* What each source contributes: its table, or nothing when it fails (and, for
\* the global file, when HOME is unset or the file is not there).
global_contribution ==
    IF alias_env.home /\ alias_env.global_exists /\ alias_env.global.ok
    THEN alias_env.global.v ELSE NoAliases

shell_contribution == IF alias_env.shell.ok THEN alias_env.shell.v ELSE NoAliases

local_contribution == IF alias_env.local.ok THEN alias_env.local.v ELSE NoAliases

AliasKeys == {CmdLl, <<"g">>, <<"x">>}

\* C21: for every key, the table's value is the local file's when the local
\* file defines the key, else the global file's when the global file
\* contributed an alias, else the shell's; a key no consulted source defines is
\* not in the table.
C21_AliasPrecedence ==
    IsSome(aliases) =>
        \A k \in AliasKeys :
            get(Unwrap(aliases), k) =
                IF k \in DOMAIN local_contribution THEN Some(local_contribution[k])
                ELSE IF DOMAIN global_contribution # {}
                     THEN get(global_contribution, k)
                     ELSE get(shell_contribution, k)

\* C21 witness: the table is built where the global file defines only g, the
\* shell defines ll and g, and the local file defines ll: the shell is not asked.
C21_Witness ==
    /\ IsSome(aliases)
    /\ DOMAIN global_contribution = {<<"g">>}
    /\ DOMAIN shell_contribution = {CmdLl, <<"g">>}
    /\ DOMAIN local_contribution = {CmdLl}
    /\ Unwrap(aliases) = (CmdLl :> <<"L">>) @@ (<<"g">> :> <<"G">>)

\* The alias sources with every failing source replaced by one that succeeds
\* and defines nothing.
without_failures(env) ==
    [home |-> TRUE, global_exists |-> TRUE,
     global |-> IF env.home /\ env.global_exists /\ env.global.ok
                THEN env.global ELSE Ok(NoAliases),
     shell |-> IF env.shell.ok THEN env.shell ELSE Ok(NoAliases),
     local |-> IF env.local.ok THEN env.local ELSE Ok(NoAliases)]

\* C22: whatever sources fail, the run gets a table and goes on, and the table
\* is the one it would get if each failing source had succeeded with no alias.
C22_SourceFailureSkipped ==
    pc # "start" =>
        /\ IsSome(aliases)
        /\ pc = "seq"
        /\ Unwrap(aliases) = get_aliases(without_failures(alias_env))
        /\ DOMAIN Unwrap(aliases) \subseteq
              DOMAIN global_contribution \cup DOMAIN shell_contribution
              \cup DOMAIN local_contribution
        /\ \A k \in DOMAIN global_contribution :
              k \notin DOMAIN local_contribution => Unwrap(aliases)[k] = <<"G">>

\* C22 witness: the table is built where the local file and the shell listing
\* fail and the global file defines both keys.
C22_Witness ==
    /\ IsSome(aliases)
    /\ ~alias_env.local.ok
    /\ ~alias_env.shell.ok
    /\ Unwrap(aliases) = (CmdLl :> <<"G">>) @@ (<<"g">> :> <<"G">>)

running_items == {i \in 1..Len(commands) : status[i] = "running"}

\* C23: in sequential mode at most one item is inside an executor, and an item
\* is started only when every item before it has its Outcome in the result
\* list, at its position.
C23_SequentialOneAtATime ==
    (~config.parallel /\ commands # <<>>) =>
        /\ Cardinality(running_items) <= 1
        /\ \A i \in 1..Len(commands) :
              calls[i] >= 1 =>
                  /\ calls[i] = 1
                  /\ Len(results) >= i - 1
                  /\ \A j \in 1..(i - 1) :
                        /\ status[j] = "done"
                        /\ results[j].directory = commands[j].dir
                  /\ status[i] = "running" => Len(results) = i - 1
                  /\ status[i] = "done" => Len(results) >= i

\* C23 witness: a sequential run of three items is inside the executor for the
\* second one.
C23_Witness ==
    /\ ~config.parallel
    /\ Len(commands) = 3
    /\ status = <<"done", "running", "pending">>
    /\ Len(results) = 1

\* The lines only the streaming executor prints (a blank line is also printed
\* by the replay of captured output and by the report).
StreamingKinds ==
    {"no_directory", "no_directory_marker", "dry_run", "executing_in", "child", "ok",
     "ok_dot", "ok_dot_base", "failed"}

\* C24: the executor called for an item is the streaming one exactly when the
\* run is sequential and not JSON, and the capturing one otherwise; the Outcome
\* is the one that executor gives; in parallel mode and for JSON output no line
\* of the streaming executor is printed; the streaming executor is never inside
\* two calls at once.
C24_VariantSelection ==
    /\ \A i \in 1..Len(commands) :
          /\ calls[i] >= 1 <=> invoked[i] # "none"
          /\ invoked[i] # "none" =>
                /\ invoked[i] = "streaming" <=> (~config.parallel /\ ~config.json_output)
                /\ invoked[i] = "capturing" <=> (config.parallel \/ config.json_output)
          /\ IsSome(outcome_of(i)) =>
                Unwrap(outcome_of(i)) =
                   IF ~config.parallel /\ ~config.json_output
                   THEN execute_command_in_directory(
                           commands[i].dir, commands[i].cmd, config,
                           get_aliases(alias_env)).result
                   ELSE execute_command_in_directory_capturing(
                           commands[i].dir, commands[i].cmd, config,
                           get_aliases(alias_env)).result
    /\ (config.parallel \/ config.json_output) =>
          \A k \in 1..Len(out) : out[k].kind \notin StreamingKinds
    /\ Cardinality({i \in running_items : invoked[i] = "streaming"}) <= 1

\* C24 witness: a sequential JSON run has the Outcome of an item from the
\* capturing executor, with captured output.
C24_Witness ==
    /\ ~config.parallel
    /\ config.json_output
    /\ \E i \in 1..Len(commands) :
          /\ invoked[i] = "capturing"
          /\ IsSome(outcome_of(i))
          /\ Unwrap(outcome_of(i)).stdout # <<>>

\* The run shows spinners: parallel, on a terminal, not JSON.
interactive == config.parallel /\ stdout_is_terminal /\ ~config.json_output

\* C25: in parallel mode every step that dispatches an item finds one slot per
\* item already there (a spinner each, in an interactive run), and a step
\* changes slot j only when it is the start or the end of item j, whatever the
\* order of starts and ends.
C25_SlotsPositional ==
    [][config.parallel =>
          /\ (\E i \in DOMAIN calls : calls'[i] > calls[i]) =>
                /\ Len(spinners) = Len(commands)
                /\ interactive => \A k \in 1..Len(spinners) : spinners[k] # "none"
          /\ \A j \in DOMAIN spinners :
                spinners'[j] # spinners[j] =>
                    /\ status'[j] # status[j]
                    /\ \A k \in DOMAIN status : k # j => status'[k] = status[k]]_vars

\* C25 witness: in an interactive run of three items the third has ended and
\* the second runs while the first is still pending.
C25_Witness ==
    /\ interactive
    /\ Len(commands) = 3
    /\ spinners[1] = "pending"
    /\ spinners[2] = "running"
    /\ spinners[3] \in {"done_ok", "done_failed"}

TerminalSpinner == {"done_ok", "done_failed"}

\* C26: a spinner only goes from pending to running and from running to done;
\* it is pending as long as the executor has not been called for its item, it
\* ends only once the item's Outcome exists, with the mark of the Outcome's
\* success; once done it never changes; when an interactive run returns every
\* spinner is done.
C26_SpinnerLifecycle ==
    [][/\ \A j \in DOMAIN spinners :
             /\ spinners'[j] # spinners[j] =>
                   \/ spinners[j] = "pending" /\ spinners'[j] = "running" /\ calls[j] = 0
                   \/ /\ spinners[j] = "running"
                      /\ spinners'[j] \in TerminalSpinner
                      /\ IsSome(parallel_results'[j])
                      /\ (spinners'[j] = "done_ok") = Unwrap(parallel_results'[j]).success
             /\ spinners[j] \in TerminalSpinner => spinners'[j] = spinners[j]
             /\ (spinners[j] = "pending") => calls[j] = 0
       /\ (interactive /\ ret' # None) =>
             \A j \in DOMAIN spinners' : spinners'[j] \in TerminalSpinner]_vars

\* C26 witness: an interactive run has returned with a spinner ended in success
\* and one ended in failure.
C26_Witness ==
    /\ interactive
    /\ ret # None
    /\ \E j \in 1..Len(spinners) : spinners[j] = "done_ok"
    /\ \E j \in 1..Len(spinners) : spinners[j] = "done_failed"

\* The lines of the replay of captured output.
CapturedKinds == {"blank2", "captured_ok", "captured_failed", "stdout", "stderr"}

is_blank(text) == \A k \in 1..Len(text) : text[k] \in {" ", "\n", "\t", "\r"}

\* The items whose Outcome has captured output that is not blank.
with_output == {i \in 1..Len(results) : ~is_blank(results[i].stdout)
                                        \/ ~is_blank(results[i].stderr)}

\* C27: the replay of captured output is printed only by parallel runs that
\* are neither silent nor JSON, and only when every item is done; its headers
\* are one per item with captured output that is not blank, in the order of
\* the items, each with the success mark of its Outcome and followed by that
\* Outcome's text.
C27_CapturedOutputAfterAll ==
    LET replay == SelectSeq(out, LAMBDA l : l.kind \in CapturedKinds)
        headers == SelectSeq(out, LAMBDA l : l.kind \in {"captured_ok", "captured_failed"})
        texts == SelectSeq(out, LAMBDA l : l.kind \in {"stdout", "stderr"})
    IN  /\ replay # <<>> =>
              /\ config.parallel /\ ~config.silent /\ ~config.json_output
              /\ \A i \in 1..Len(commands) : status[i] = "done"
              /\ pc \in {"summary", "reported", "done"}
        /\ (config.parallel /\ ~config.silent /\ ~config.json_output
            /\ pc \in {"summary", "reported", "done"}) =>
              /\ Len(headers) = Cardinality(with_output)
              /\ \A k \in 1..Len(headers) :
                    LET r == results[kth(with_output, k)]
                    IN  /\ headers[k].kind =
                              IF r.success THEN "captured_ok" ELSE "captured_failed"
                        /\ headers[k].a = dir_name_of(r.directory)
              /\ Len(texts) = Cardinality(with_output)
              /\ \A k \in 1..Len(texts) :
                    LET r == results[kth(with_output, k)]
                    IN  texts[k].a = IF r.stdout # <<>> THEN r.stdout ELSE r.stderr

\* C27 witness: a parallel run has replayed the output of a failed item and of
\* a succeeded one, in this order, and skipped an item whose output is blank.
C27_Witness ==
    /\ config.parallel /\ ~config.silent /\ ~config.json_output
    /\ pc = "done"
    /\ Len(results) = 3
    /\ with_output = {1, 3}
    /\ ~results[1].success
    /\ results[2].stdout = <<" ", "\n">>
    /\ results[3].success

\* C28: the result list is written by the sequential loop, one Outcome at a
\* time and by the loop alone, or once by the parallel branch when no task is
\* left; a write only appends; what is in the list is, position by position,
\* the Outcome of the item at that position, so none is lost or stored twice.
C28_SingleWriter ==
    [][/\ results' # results =>
             /\ Len(results') > Len(results)
             /\ SubSeq(results', 1, Len(results)) = results
             /\ IF config.parallel
                THEN /\ results = <<>>
                     /\ \A i \in 1..Len(commands) : status[i] = "done"
                     /\ Len(results') = Len(commands)
                ELSE /\ Len(results') = Len(results) + 1
                     /\ running_items = {Len(results) + 1}
             /\ \A k \in (Len(results) + 1)..Len(results') :
                   k <= Len(commands) /\ results'[k] = expected_call(k).result]_vars

\* C28 witness: a parallel run whose three items ended last first has merged
\* three Outcomes, and not all of them are the same.
C28_Witness ==
    /\ config.parallel
    /\ Len(results) = 3
    /\ results[1] # results[2]
    /\ pc = "summary"

\* C29 as stated: the command of every Outcome is the resolved command line,
\* however the Outcome was produced.
C29_CommandResolved ==
    \A i \in 1..Len(commands) :
        IsSome(outcome_of(i)) =>
            Unwrap(outcome_of(i)).command =
                expected_resolution(commands[i].cmd, get_aliases(alias_env))

\* C29 amended: the command of an Outcome is the resolved command line when the
\* item's directory exists (dry run, ended process, failed launch), and the
\* command line as given when the directory is missing, with either executor.
C29_CommandResolvedUnlessMissing ==
    \A i \in 1..Len(commands) :
        IsSome(outcome_of(i)) =>
            Unwrap(outcome_of(i)).command =
                IF exists(commands[i].dir)
                THEN expected_resolution(commands[i].cmd, get_aliases(alias_env))
                ELSE commands[i].cmd

\* C29 witness: a run has the Outcomes of an aliased command line in a missing
\* directory (as given), in a directory where the launch fails (resolved) and
\* in a directory where the process ended (resolved).
C29_Witness ==
    /\ Len(results) = 3
    /\ \E i, j, k \in 1..3 :
          /\ ~exists(commands[i].dir) /\ results[i].command = CmdLl
          /\ commands[j].cmd = CmdLl /\ results[j].exit_code = -1
             /\ results[j].command = CmdLs
          /\ commands[k].cmd = CmdLl /\ results[k].success /\ results[k].command = CmdLs

\* No child of the run hangs: no item's executor call spawns a child that never
\* ends.
no_child_hangs == \A i \in 1..Len(commands) : ~hangs(expected_call(i))

\* C30 as stated: once a run over a work list that is not empty is dispatched
\* and no child hangs, every item eventually has its Outcome and the run
\* returns; a run with a spawned child that never ends never returns.
C30_RunToCompletion ==
    /\ (pc \in {"seq", "par"} /\ no_child_hangs) ~>
          (ret # None /\ \A i \in 1..Len(commands) : IsSome(outcome_of(i)))
    /\ []((\E i \in spawned : hangs(expected_call(i))) => ret = None)

\* The child of item i was spawned and ended without an exit status.
ended_by_signal(i) ==
    /\ i \in spawned
    /\ ShellRun(expected_resolution(commands[i].cmd, get_aliases(alias_env))).code = None

\* C31: every Outcome, of either executor, has success = true exactly when its
\* exit code is 0; a missing directory gives (false, 1), a dry run in a
\* directory that exists (true, 0), a failed launch (false, -1), and a child
\* that ended without an exit status (false, -1).
C31_SuccessIffExitZero ==
    \A i \in 1..Len(commands) :
        IsSome(outcome_of(i)) =>
            LET o == Unwrap(outcome_of(i))
            IN  /\ o.success <=> o.exit_code = 0
                /\ ~exists(commands[i].dir) => (~o.success /\ o.exit_code = 1)
                /\ (exists(commands[i].dir) /\ config.dry_run) =>
                      (o.success /\ o.exit_code = 0)
                /\ launch_fails(i) => (~o.success /\ o.exit_code = -1)
                /\ ended_by_signal(i) => (~o.success /\ o.exit_code = -1)

\* C31 witness: the streaming executor has given the Outcome of a child ended
\* by a signal, and the Outcome of a child that exited 0.
C31_Witness ==
    /\ ~config.parallel /\ ~config.json_output
    /\ \E i \in 1..Len(results) : ended_by_signal(i) /\ results[i].exit_code = -1
    /\ \E i \in 1..Len(results) : results[i].success

\* C31 second witness: the capturing executor has given the Outcome of a child
\* ended by a signal and of a launch that failed.
C31_WitnessCapturing ==
    /\ config.parallel
    /\ pc = "summary"
    /\ \E i \in 1..Len(results) : ended_by_signal(i) /\ results[i].exit_code = -1
    /\ \E i \in 1..Len(results) : launch_fails(i) /\ results[i].exit_code = -1

\* C32 as stated: in structured-output mode the document's overall success
\* flag is true exactly when the run returns success.
C32_JsonFlagAgreesWithReturn ==
    (config.json_output /\ IsSome(json_doc) /\ IsSome(ret)) =>
        (Unwrap(json_doc).success <=> ret = Some("Ok"))

\* Outside a dry run the flag and the returned signal do agree.
C32_JsonFlagAgreesOutsideDryRun ==
    (config.json_output /\ ~config.dry_run /\ IsSome(json_doc) /\ IsSome(ret)) =>
        (Unwrap(json_doc).success <=> ret = Some("Ok"))

\* C33 as stated: for the same work list and alias table, once the run with
\* parallel unset has ended, it has produced the same ordered list of (success,
\* exit code, directory, command) and the same pass/fail signal as the run with
\* parallel set, whatever the interleaving of the concurrent run was.
C33_SameResultAsParallel ==
    (IsSome(first_run) /\ pc \in {"done", "panicked"}) =>
        /\ signature(results) = Unwrap(first_run).results
        /\ ret = Unwrap(first_run).ret

\* Every sequential run that returns agrees with the concurrent run before it.
C33_SameResultWhenReturned ==
    (IsSome(first_run) /\ pc = "done") =>
        /\ signature(results) = Unwrap(first_run).results
        /\ ret = Unwrap(first_run).ret

\* A sequential run has returned after a concurrent run of three items, one of
\* them failed.
C33_Returned ==
    /\ IsSome(first_run) /\ pc = "done"
    /\ Len(results) = MaxItems
    /\ ret = Some("Err")

\* C34 as stated: run(config, command) behaves exactly like run_commands on
\* config.directories paired with the command: every step run takes from a
\* state is the step run_commands takes from it.
C34_RunIsRunCommands == [][run => run_commands]_vars

\* C34 amended: run hands the engine the work list run_commands hands it (the
\* same items kept, in the same order) and differs from run_commands only in
\* the filter trace it prints first (verbose, with exclude filters); and the
\* signal a run returns depends on the configuration and that work list only:
\* Err exactly when this is no dry run and an item of the work list fails.
C34_SameWorkSameSignal ==
    [][/\ run => enter_internal(filter_commands(config, input),
                                run_filter_lines(config, input))
       /\ (pc = "reported" /\ pc' = "done") =>
             (ret' = Some("Err") <=>
                 (/\ ~config.dry_run
                  /\ \E i \in 1..Len(commands) : ~expected_call(i).result.success))]_vars

\* C34 witness: a run entered through run, which printed its filter trace and
\* dropped an excluded directory, has returned Err.
C34_Witness ==
    /\ pc = "done"
    /\ out # <<>> /\ out[1].kind = "exclude_filters"
    /\ commands # <<>> /\ Len(commands) < Len(input)
    /\ ret = Some("Err")

====
